---- MODULE Spec2Model ----
(***************************************************************************)
(* Lifecycle coordinator of jamillosantos/application: Application.Run,    *)
(* the builder methods, the self-readiness check (appChecker.Check) and    *)
(* the health/readiness observer, with the services Runner, the            *)
(* configuration loader and the logger as collaborators whose calls either *)
(* return nil, return an error or panic.                                   *)
(***************************************************************************)
EXTENDS Integers, Sequences, FiniteSets, TLC

\* ---------------------------------------------------------------- bounds
MaxHooks == 2
NumCheckers == 2
NumThreads == 2

\* ------------------------------------------------------------- constants
stateRunning == "running"
stateZero == ""
ErrAppNotRunningYet == "app is not running yet"
AppCheckName == "app"
SystemServer == "metrics/health/live"

\* the services of the test suite: a server, a resource, a server that is a
\* ReadyChecker; and a service that is a HealthChecker and a ReadyChecker
UserServices == {"http", "resource", "Long to get Ready", "checked"}
\* the handlers a program registers, named by number
Handlers == 1..MaxHooks
Checkers == 1..NumCheckers
\* the goroutines that call Application.Shutdown
Threads == 1..NumThreads

\* the arguments the builder methods are called with
Contexts == {"ctx"}
VersionArgs == { <<"version", "build", "build_date">> }
Environments == {"environment", "dev"}
ZapOptions == { <<>>, <<"AddCaller">> }

\* holders of Application.stateM: nobody, the goroutine of Run, or a checker
Unlocked == 0
RunGoroutine == 0 - 1

\* ReadyChecker / HealthChecker are detected by type assertion
IsReadyChecker(s, sysReady) ==
    \/ s \in {"Long to get Ready", "checked"}
    \/ s = SystemServer /\ sysReady
IsHealthChecker(s) == s = "checked"

\* the service sets a setup callback of the test suite returns
ServiceSets ==
    { <<>>, <<"resource">>, <<"Long to get Ready">>,
      <<"http", "resource">>, <<"resource", "Long to get Ready">>,
      <<"checked">>, <<"Long to get Ready", "checked">> }

Range(f) == { f[i] : i \in DOMAIN f }

VARIABLES
    pc,                  \* position of the goroutine executing Run
    ret,                 \* value returned by the closure of Run
    failed,              \* the step whose error the closure returned
    panicValue,          \* the panic in flight ("none" when there is none)
    recovered,           \* number of panics recover() has returned
    exitCode,            \* -1 while running, 0 Run returned, 1 os.Exit(1)
    state, stateM,       \* Application.state and the holder of its mutex
    disableSystemServer,
    shutdownHandler,
    ConfigManager,
    ctxDone,             \* the context of the run is cancelled
    svcs,                \* the service set the setup callback returned
    runnerArgs, runnerIdx, runnerCaller,  \* the Runner.Run call in progress
    started,             \* services the Runner has started, in order
    startCalls, stopCalls, finishCalls,
    finishErr,           \* Runner.Finish returned an error (it is logged)
    readyChecks, healthChecks,            \* the names in the registry
    ready,               \* the ReadyChecker services whose ready flag is set
    sysReady,            \* the status server type (srvfiber.FiberServer, not
                         \* part of this repository) is a ReadyChecker: either
                         \* is possible, the value is fixed for a run
    hookCalls,           \* shutdown handlers invoked, in order
    log,                 \* steps of the run, in order
    chk,                 \* the evaluations of appChecker.Check
    context, version, build, buildDate, environment, loggerZapOptions,
    shutdownHandlerMutex,  \* the holder of the mutex of shutdownHandler
    thr,                 \* the calls of Shutdown in progress, by goroutine
    calls,               \* the handlers passed to Shutdown, in call order
    overlapped,          \* a Shutdown was called while another was running
    call                 \* the last method called on the Application

vars == << pc, ret, failed, panicValue, recovered, exitCode, state, stateM,
           disableSystemServer, shutdownHandler, ConfigManager, ctxDone,
           svcs, runnerArgs, runnerIdx, runnerCaller, started, startCalls,
           stopCalls, finishCalls, finishErr, readyChecks, healthChecks,
           ready, sysReady, hookCalls, log, chk, context, version, build,
           buildDate, environment, loggerZapOptions, shutdownHandlerMutex,
           thr, calls, overlapped, call >>

appVars == << disableSystemServer, shutdownHandler, ConfigManager >>
runVars == << pc, ret, failed, panicValue, recovered, exitCode >>
runnerVars == << svcs, runnerArgs, runnerIdx, runnerCaller, started,
                 startCalls, stopCalls, finishCalls, finishErr >>
hcVars == << readyChecks, healthChecks, sysReady >>
fieldVars == << context, version, build, buildDate, environment,
               loggerZapOptions >>
shutdownVars == << shutdownHandlerMutex, thr, calls, overlapped >>
extVars == << fieldVars, shutdownVars, call >>

AllServices == UserServices \cup {SystemServer}

IdleCheck == [pc |-> "idle", result |-> "none", atCall |-> stateZero]
IdleThread == [pc |-> "idle", handler |-> 0, local |-> <<>>]

Init ==
    /\ pc = "new"
    /\ ret = "nil"
    /\ failed = "none"
    /\ panicValue = "none"
    /\ recovered = 0
    /\ exitCode = -1
    /\ state = stateZero
    /\ stateM = Unlocked
    /\ disableSystemServer = FALSE
    /\ shutdownHandler = <<>>
    /\ ConfigManager = "nil"
    /\ ctxDone = FALSE
    /\ svcs = <<>>
    /\ runnerArgs = <<>>
    /\ runnerIdx = 0
    /\ runnerCaller = "none"
    /\ started = <<>>
    /\ startCalls = [s \in AllServices |-> 0]
    /\ stopCalls = [s \in AllServices |-> 0]
    /\ finishCalls = 0
    /\ finishErr = FALSE
    /\ readyChecks = {}
    /\ healthChecks = {}
    /\ ready = {}
    /\ sysReady \in BOOLEAN
    /\ hookCalls = <<>>
    /\ log = <<>>
    /\ chk = [c \in Checkers |-> IdleCheck]
    /\ context = "background"
    /\ version = "dev"
    /\ build = "local"
    /\ buildDate = "unspecified"
    /\ environment = "production"
    /\ loggerZapOptions = <<>>
    /\ shutdownHandlerMutex = Unlocked
    /\ thr = [t \in Threads |-> IdleThread]
    /\ calls = <<>>
    /\ overlapped = FALSE
    /\ call = <<>>

\* ------------------------------------------------------- builder methods
BoolArg(b) == IF b THEN "true" ELSE "false"

WithContext(ctx) ==
    /\ pc = "new"
    /\ context' = ctx
    /\ call' = <<"WithContext", ctx>>
    /\ UNCHANGED << version, build, buildDate, environment, loggerZapOptions,
                    shutdownVars, ready, appVars, runVars, state, stateM,
                    ctxDone, runnerVars, hcVars, hookCalls, log, chk >>

WithVersion(v, b, d) ==
    /\ pc = "new"
    /\ version' = v
    /\ build' = b
    /\ buildDate' = d
    /\ call' = <<"WithVersion", v, b, d>>
    /\ UNCHANGED << context, environment, loggerZapOptions, shutdownVars,
                    ready, appVars, runVars, state, stateM, ctxDone,
                    runnerVars, hcVars, hookCalls, log, chk >>

WithLoggerZapOptions(options) ==
    /\ pc = "new"
    /\ loggerZapOptions' = options
    /\ call' = <<"WithLoggerZapOptions">> \o options
    /\ UNCHANGED << context, version, build, buildDate, environment,
                    shutdownVars, ready, appVars, runVars, state, stateM,
                    ctxDone, runnerVars, hcVars, hookCalls, log, chk >>

\* WithEnvironment that also puts the version back to its default
WithEnvironmentMutant(e) ==
    /\ pc = "new"
    /\ environment' = e
    /\ version' = "dev"
    /\ call' = <<"WithEnvironment", e>>
    /\ UNCHANGED << context, build, buildDate, loggerZapOptions,
                    shutdownVars, ready, appVars, runVars, state, stateM,
                    ctxDone, runnerVars, hcVars, hookCalls, log, chk >>

WithEnvironment(e) ==
    /\ pc = "new"
    /\ environment' = e
    /\ call' = <<"WithEnvironment", e>>
    /\ UNCHANGED << context, version, build, buildDate, loggerZapOptions,
                    shutdownVars, ready, appVars, runVars, state, stateM,
                    ctxDone, runnerVars, hcVars, hookCalls, log, chk >>

WithDisableSystemServer(disable) ==
    /\ pc = "new"
    /\ disableSystemServer' = disable
    /\ call' = <<"WithDisableSystemServer", BoolArg(disable)>>
    /\ UNCHANGED << fieldVars, shutdownVars, ready, shutdownHandler, ConfigManager, runVars, state, stateM,
                    ctxDone, runnerVars, hcVars, hookCalls, log, chk >>

\* lock; append; unlock.  Handlers are registered before Run is called or
\* while it runs, up to the start of the teardown.
Shutdown(handler) ==
    /\ pc \notin {"deferred", "finish", "sync", "exit", "done"}
    /\ shutdownHandlerMutex = Unlocked
    /\ Len(shutdownHandler) < MaxHooks
    /\ handler \notin Range(shutdownHandler)
    /\ shutdownHandler' = Append(shutdownHandler, handler)
    /\ UNCHANGED << extVars, ready, disableSystemServer, ConfigManager, runVars, state,
                    stateM, ctxDone, runnerVars, hcVars, hookCalls, log, chk >>

\* Application.Shutdown step by step, called from several goroutines
ShutdownCall(t, handler) ==
    /\ pc = "new"
    /\ thr[t].pc = "idle"
    /\ Len(calls) < MaxHooks
    /\ handler \notin Range(calls)
    /\ thr' = [thr EXCEPT ![t] = [pc |-> "lock", handler |-> handler,
                                  local |-> <<>>]]
    /\ calls' = Append(calls, handler)
    /\ overlapped' = (overlapped \/ \E u \in Threads : thr[u].pc /= "idle")
    /\ UNCHANGED << fieldVars, shutdownHandlerMutex, call, ready, appVars,
                    runVars, state, stateM, ctxDone, runnerVars, hcVars,
                    hookCalls, log, chk >>

\* a lock that does not wait for the mutex
ShutdownLockMutant(t) ==
    /\ thr[t].pc = "lock"
    /\ shutdownHandlerMutex' = t
    /\ thr' = [thr EXCEPT ![t].pc = "read"]
    /\ UNCHANGED << fieldVars, calls, overlapped, call, ready, appVars,
                    runVars, state, stateM, ctxDone, runnerVars, hcVars,
                    hookCalls, log, chk >>

\* app.shutdownHandlerMutex.Lock()
ShutdownLock(t) ==
    /\ thr[t].pc = "lock"
    /\ shutdownHandlerMutex = Unlocked
    /\ shutdownHandlerMutex' = t
    /\ thr' = [thr EXCEPT ![t].pc = "read"]
    /\ UNCHANGED << fieldVars, calls, overlapped, call, ready, appVars,
                    runVars, state, stateM, ctxDone, runnerVars, hcVars,
                    hookCalls, log, chk >>

\* append(app.shutdownHandler, handler) reads the slice ...
ShutdownRead(t) ==
    /\ thr[t].pc = "read"
    /\ thr' = [thr EXCEPT ![t].pc = "write", ![t].local = shutdownHandler]
    /\ UNCHANGED << fieldVars, shutdownHandlerMutex, calls, overlapped, call,
                    ready, appVars, runVars, state, stateM, ctxDone,
                    runnerVars, hcVars, hookCalls, log, chk >>

\* ... and the result is assigned to app.shutdownHandler
ShutdownWrite(t) ==
    /\ thr[t].pc = "write"
    /\ shutdownHandler' = Append(thr[t].local, thr[t].handler)
    /\ thr' = [thr EXCEPT ![t].pc = "unlock"]
    /\ UNCHANGED << fieldVars, shutdownHandlerMutex, calls, overlapped, call,
                    ready, disableSystemServer, ConfigManager, runVars, state,
                    stateM, ctxDone, runnerVars, hcVars, hookCalls, log, chk >>

\* app.shutdownHandlerMutex.Unlock(); return app
ShutdownUnlock(t) ==
    /\ thr[t].pc = "unlock"
    /\ shutdownHandlerMutex' = Unlocked
    /\ thr' = [thr EXCEPT ![t] = IdleThread]
    /\ UNCHANGED << fieldVars, calls, overlapped, call, ready, appVars,
                    runVars, state, stateM, ctxDone, runnerVars, hcVars,
                    hookCalls, log, chk >>

\* --------------------------------------------------------- Application.Run
RunCall ==
    /\ pc = "new"
    /\ pc' = "logger"
    /\ call' = <<"Run">>
    /\ UNCHANGED << fieldVars, shutdownVars, ready, ret, failed, panicValue, recovered, exitCode, appVars,
                    state, stateM, ctxDone, runnerVars, hcVars, hookCalls,
                    log, chk >>

\* zapcfg.Build: on error the closure returns before any defer is registered
BuildLogger ==
    /\ pc = "logger"
    /\ \E e \in {"nil", "error"} :
         IF e /= "nil"
            THEN /\ ret' = e
                 /\ failed' = "logger"
                 /\ pc' = "exit"
            ELSE /\ pc' = "logctx"
                 /\ UNCHANGED << ret, failed >>
    /\ log' = Append(log, <<"step", "logger">>)
    /\ UNCHANGED << extVars, ready, panicValue, recovered, exitCode, appVars, state, stateM,
                    ctxDone, runnerVars, hcVars, hookCalls, chk >>

\* signal.NotifyContext, defer cancelFunc(), logctx.Initialize: on error the
\* closure returns and the deferred cancelFunc runs
LogctxInitialize ==
    /\ pc = "logctx"
    /\ \E e \in {"nil", "error"} :
         IF e /= "nil"
            THEN /\ ret' = e
                 /\ failed' = "logger"
                 /\ ctxDone' = TRUE
                 /\ pc' = "exit"
            ELSE /\ pc' = "newHealthcheck"
                 /\ UNCHANGED << ret, failed, ctxDone >>
    /\ log' = Append(log, <<"step", "logctx">>)
    /\ UNCHANGED << extVars, ready, panicValue, recovered, exitCode, appVars, state, stateM,
                    runnerVars, hcVars, hookCalls, chk >>

\* a registry constructed without the self-readiness check
NewHealthcheckMutant ==
    /\ pc = "newHealthcheck"
    /\ readyChecks' = {}
    /\ healthChecks' = {}
    /\ pc' = "sysServer"
    /\ log' = Append(log, <<"step", "runner">>)
    /\ UNCHANGED << extVars, ready, ret, failed, panicValue, recovered, exitCode, appVars,
                    state, stateM, ctxDone, runnerVars, sysReady, hookCalls,
                    chk >>

\* NewHealthcheck(WithReadyCheck("app", &appChecker{app})), the observer,
\* services.NewRunner and the registration of the deferred teardown
NewHealthcheck ==
    /\ pc = "newHealthcheck"
    /\ readyChecks' = {AppCheckName}
    /\ healthChecks' = {}
    /\ pc' = "sysServer"
    /\ log' = Append(log, <<"step", "runner">>)
    /\ UNCHANGED << extVars, ready, ret, failed, panicValue, recovered, exitCode, appVars,
                    state, stateM, ctxDone, runnerVars, sysReady, hookCalls,
                    chk >>

\* where Run continues when Runner.Run returned nil to the caller
AfterRunOk(caller) ==
    IF caller = "sysServer" THEN "plainLoad" ELSE "lock"

\* where Run continues on the value e of a fallible step: a returned error
\* leaves the closure through the deferred teardown
AfterStepMutant(e, next) == next
AfterStep(e, next) == IF e /= "nil" THEN "deferred" ELSE next

\* a panic unwinds to the deferred function; the closure's result stays nil
Panic(step) ==
    /\ panicValue' = step
    /\ pc' = "deferred"
    /\ UNCHANGED << ret, failed >>

\* runSystemServer with the flag inverted
RunSystemServerMutant ==
    /\ pc = "sysServer"
    /\ IF ~disableSystemServer
          THEN /\ pc' = "plainLoad"
               /\ UNCHANGED << runnerArgs, runnerIdx, runnerCaller, log >>
          ELSE /\ runnerArgs' = << SystemServer >>
               /\ runnerIdx' = 1
               /\ runnerCaller' = "sysServer"
               /\ pc' = "runnerBeforeStart"
               /\ log' = Append(log, <<"run", "sysServer">>)
    /\ UNCHANGED << extVars, ready, ret, failed, panicValue, recovered, exitCode, appVars,
                    state, stateM, ctxDone, svcs, started, startCalls,
                    stopCalls, finishCalls, finishErr, hcVars, hookCalls, chk >>

\* runSystemServer: nothing when the flag is set, else Runner.Run(ctx, server)
RunSystemServer ==
    /\ pc = "sysServer"
    /\ IF disableSystemServer
          THEN /\ pc' = "plainLoad"
               /\ UNCHANGED << runnerArgs, runnerIdx, runnerCaller, log >>
          ELSE /\ runnerArgs' = << SystemServer >>
               /\ runnerIdx' = 1
               /\ runnerCaller' = "sysServer"
               /\ pc' = "runnerBeforeStart"
               /\ log' = Append(log, <<"run", "sysServer">>)
    /\ UNCHANGED << extVars, ready, ret, failed, panicValue, recovered, exitCode, appVars,
                    state, stateM, ctxDone, svcs, started, startCalls,
                    stopCalls, finishCalls, finishErr, hcVars, hookCalls, chk >>

\* healthcheckObserver.BeforeStart: addIfHealthCheck, addIfReadyCheck
BeforeStartReadyMutant(rc, service, isReady) == rc \cup {service}
BeforeStartReady(rc, service, isReady) ==
    IF isReady THEN rc \cup {service} ELSE rc
BeforeStartHealthMutant(hc, service) == hc \cup {service}
BeforeStartHealth(hc, service) ==
    IF IsHealthChecker(service) THEN hc \cup {service} ELSE hc

\* Listen of a ReadyChecker sets its ready flag before it returns nil
ListenMutant(rd, service, isReady, outcome) ==
    IF isReady THEN rd \cup {service} ELSE rd
Listen(rd, service, isReady, outcome) ==
    IF isReady /\ outcome = "nil" THEN rd \cup {service} ELSE rd

\* Runner.Run fires before_start for the next service of the call
RunnerBeforeStart ==
    /\ pc = "runnerBeforeStart"
    /\ LET service == runnerArgs[runnerIdx] IN
         /\ readyChecks' = BeforeStartReady(readyChecks, service,
                                            IsReadyChecker(service, sysReady))
         /\ healthChecks' = BeforeStartHealth(healthChecks, service)
         /\ log' = Append(log, <<"before_start", service>>)
    /\ pc' = "runnerStart"
    /\ UNCHANGED << extVars, ready, ret, failed, panicValue, recovered, exitCode, appVars,
                    state, stateM, ctxDone, runnerVars, sysReady, hookCalls,
                    chk >>

\* Runner.Run starts the service: it starts, fails (Run returns the error
\* to its caller) or panics
RunnerStart ==
    /\ pc = "runnerStart"
    /\ LET service == runnerArgs[runnerIdx] IN
         /\ startCalls' = [startCalls EXCEPT ![service] = @ + 1]
         /\ \E outcome \in {"nil", "error", "panic"} :
              /\ log' = Append(log, <<"start_" \o outcome, service>>)
              /\ ready' = Listen(ready, service,
                                 IsReadyChecker(service, sysReady), outcome)
              /\ CASE outcome = "panic" ->
                        /\ Panic(runnerCaller)
                        /\ UNCHANGED << started, runnerIdx >>
                   [] outcome = "error" ->
                        /\ ret' = outcome
                        /\ failed' = runnerCaller
                        /\ pc' = AfterStep(outcome, AfterRunOk(runnerCaller))
                        /\ UNCHANGED << started, runnerIdx, panicValue >>
                   [] OTHER ->
                        /\ started' = Append(started, service)
                        /\ runnerIdx' = runnerIdx + 1
                        /\ pc' = IF runnerIdx = Len(runnerArgs)
                                    THEN AfterStep(outcome,
                                                   AfterRunOk(runnerCaller))
                                    ELSE "runnerBeforeStart"
                        /\ UNCHANGED << ret, failed, panicValue >>
    /\ UNCHANGED << extVars, recovered, exitCode, appVars, state, stateM, ctxDone,
                    svcs, runnerArgs, runnerCaller, stopCalls, finishCalls,
                    finishErr, hcVars, hookCalls, chk >>

\* one configuration phase: plainEngine.Load / secretEngine.Load
Load(at, step, next, manager) ==
    /\ pc = at
    /\ \E outcome \in {"nil", "error", "panic"} :
         /\ log' = Append(log, <<"load_" \o outcome, step>>)
         /\ CASE outcome = "panic" ->
                   /\ Panic(step)
                   /\ UNCHANGED ConfigManager
              [] outcome = "error" ->
                   /\ ret' = outcome
                   /\ failed' = step
                   /\ pc' = AfterStep(outcome, next)
                   /\ UNCHANGED << panicValue, ConfigManager >>
              [] OTHER ->
                   /\ pc' = AfterStep(outcome, next)
                   /\ ConfigManager' = manager
                   /\ UNCHANGED << ret, failed, panicValue >>
    /\ UNCHANGED << extVars, ready, recovered, exitCode, disableSystemServer, shutdownHandler,
                    state, stateM, ctxDone, runnerVars, hcVars, hookCalls,
                    chk >>

PlainLoad == Load("plainLoad", "plain", "secretLoad", ConfigManager)

\* a secret load after which no manager is published
SecretLoadMutant == Load("secretLoad", "secret", "setup", ConfigManager)

\* after the secret load the merged manager is published
SecretLoad == Load("secretLoad", "secret", "setup", "manager")

\* where Run continues on the service set of the setup callback
AfterSetupMutant(s) == IF Len(s) = 0 THEN "lock" ELSE "runnerBeforeStart"
AfterSetup(s) == IF Len(s) = 0 THEN "deferred" ELSE "runnerBeforeStart"

\* the setup callback, the empty-set return and the call of Runner.Run
Setup ==
    /\ pc = "setup"
    /\ \/ \E s \in ServiceSets :
            /\ svcs' = s
            /\ pc' = AfterSetup(s)
            /\ runnerArgs' = IF Len(s) = 0 THEN runnerArgs ELSE s
            /\ runnerIdx' = IF Len(s) = 0 THEN runnerIdx ELSE 1
            /\ runnerCaller' = IF Len(s) = 0 THEN runnerCaller ELSE "services"
            /\ log' = IF Len(s) = 0
                         THEN Append(log, <<"setup_nil", "empty">>)
                         ELSE Append(log, <<"setup_nil", "run">>)
            /\ UNCHANGED << ret, failed, panicValue >>
       \/ /\ ret' = "error"
          /\ failed' = "setup"
          /\ pc' = AfterStep("error", AfterSetup(svcs))
          /\ log' = Append(log, <<"setup_error", "setup">>)
          /\ UNCHANGED << svcs, runnerArgs, runnerIdx, runnerCaller,
                          panicValue >>
       \/ /\ Panic("setup")
          /\ log' = Append(log, <<"setup_panic", "setup">>)
          /\ UNCHANGED << svcs, runnerArgs, runnerIdx, runnerCaller >>
    /\ UNCHANGED << extVars, ready, recovered, exitCode, appVars, state, stateM, ctxDone,
                    started, startCalls, stopCalls, finishCalls, finishErr,
                    hcVars, hookCalls, chk >>

\* app.stateM.Lock()
StateLock ==
    /\ pc = "lock"
    /\ stateM = Unlocked
    /\ stateM' = RunGoroutine
    /\ pc' = "setState"
    /\ UNCHANGED << extVars, ready, ret, failed, panicValue, recovered, exitCode, appVars,
                    state, ctxDone, runnerVars, hcVars, hookCalls, log, chk >>

\* app.state = stateRunning
SetRunning ==
    /\ pc = "setState"
    /\ state' = stateRunning
    /\ pc' = "unlock"
    /\ log' = Append(log, <<"step", "running">>)
    /\ UNCHANGED << extVars, ready, ret, failed, panicValue, recovered, exitCode, appVars,
                    stateM, ctxDone, runnerVars, hcVars, hookCalls, chk >>

\* app.stateM.Unlock()
StateUnlock ==
    /\ pc = "unlock"
    /\ stateM' = Unlocked
    /\ pc' = "wait"
    /\ log' = Append(log, <<"step", "wait">>)
    /\ UNCHANGED << extVars, ready, ret, failed, panicValue, recovered, exitCode, appVars,
                    state, ctxDone, runnerVars, hcVars, hookCalls, chk >>

\* Runner.Wait(ctx) returns once the context is done; or it panics
Wait ==
    /\ pc = "wait"
    /\ \/ /\ ctxDone
          /\ pc' = "deferred"
          /\ log' = Append(log, <<"wait_nil", "wait">>)
          /\ UNCHANGED << ret, failed, panicValue >>
       \/ /\ Panic("wait")
          /\ log' = Append(log, <<"wait_panic", "wait">>)
    /\ UNCHANGED << extVars, ready, recovered, exitCode, appVars, state, stateM, ctxDone,
                    runnerVars, hcVars, hookCalls, chk >>

\* the context of the run is cancelled by its parent or by a signal
Cancel ==
    /\ pc \notin {"new", "done"}
    /\ ~ctxDone
    /\ ctxDone' = TRUE
    /\ UNCHANGED << extVars, ready, runVars, appVars, state, stateM, runnerVars, hcVars,
                    hookCalls, log, chk >>

\* the deferred function goes on to Runner.Finish whatever recover() returned
AfterRecoverMutant(r) == IF r /= "none" THEN "exit" ELSE "finish"
AfterRecover(r) == "finish"

\* the deferred function: r := recover(); the panic, if any, is logged
Recover ==
    /\ pc = "deferred"
    /\ IF panicValue /= "none"
          THEN /\ recovered' = recovered + 1
               /\ panicValue' = "none"
          ELSE UNCHANGED << recovered, panicValue >>
    /\ pc' = AfterRecover(panicValue)
    /\ UNCHANGED << extVars, ready, ret, failed, exitCode, appVars, state, stateM, ctxDone,
                    runnerVars, hcVars, hookCalls, log, chk >>

\* the error of Runner.Finish is logged and the deferred function goes on to
\* logger.Sync()
AfterFinishMutant(e) == IF e THEN "exit" ELSE "sync"
AfterFinish(e) == "sync"

\* the deferred function calls Runner.Finish only on the way out of a run
\* that returns no error
FinishMutant ==
    /\ pc = "finish"
    /\ IF ret = "nil"
          THEN /\ finishCalls' = finishCalls + 1
               /\ stopCalls' = [s \in AllServices |->
                                  IF s \in Range(started) THEN stopCalls[s] + 1
                                                          ELSE stopCalls[s]]
               /\ started' = <<>>
          ELSE UNCHANGED << finishCalls, stopCalls, started >>
    /\ \E e \in BOOLEAN :
         /\ finishErr' = e
         /\ pc' = AfterFinish(e)
    /\ log' = Append(log, <<"step", "finish">>)
    /\ UNCHANGED << extVars, ready, ret, failed, panicValue, recovered, exitCode, appVars,
                    state, stateM, ctxDone, svcs, runnerArgs, runnerIdx,
                    runnerCaller, startCalls, hcVars, hookCalls, chk >>

\* a teardown that puts the state back to its zero value
FinishResetMutant ==
    /\ pc = "finish"
    /\ state' = stateZero
    /\ finishCalls' = finishCalls + 1
    /\ stopCalls' = [s \in AllServices |->
                       IF s \in Range(started) THEN stopCalls[s] + 1
                                               ELSE stopCalls[s]]
    /\ started' = <<>>
    /\ \E e \in BOOLEAN :
         /\ finishErr' = e
         /\ pc' = AfterFinish(e)
    /\ log' = Append(log, <<"step", "finish">>)
    /\ UNCHANGED << extVars, ready, ret, failed, panicValue, recovered, exitCode,
                    appVars, stateM, ctxDone, svcs, runnerArgs, runnerIdx,
                    runnerCaller, startCalls, hcVars, hookCalls, chk >>

\* app.Runner.Finish(ctx) stops what the Runner started; its error is logged
Finish ==
    /\ pc = "finish"
    /\ finishCalls' = finishCalls + 1
    /\ stopCalls' = [s \in AllServices |->
                       IF s \in Range(started) THEN stopCalls[s] + 1
                                               ELSE stopCalls[s]]
    /\ started' = <<>>
    /\ \E e \in BOOLEAN :
         /\ finishErr' = e
         /\ pc' = AfterFinish(e)
    /\ log' = Append(log, <<"step", "finish">>)
    /\ UNCHANGED << extVars, ready, ret, failed, panicValue, recovered, exitCode, appVars,
                    state, stateM, ctxDone, svcs, runnerArgs, runnerIdx,
                    runnerCaller, startCalls, hcVars, hookCalls, chk >>

\* logger.Sync(), then the deferred cancelFunc; the closure returns
Sync ==
    /\ pc = "sync"
    /\ ctxDone' = TRUE
    /\ log' = Append(log, <<"step", "sync">>)
    /\ pc' = "exit"
    /\ UNCHANGED << extVars, ready, ret, failed, panicValue, recovered, exitCode, appVars,
                    state, stateM, runnerVars, hcVars, hookCalls, chk >>

\* if err != nil { os.Exit(1) }
ExitCodeMutant(e) == 0
ExitCode(e) == IF e /= "nil" THEN 1 ELSE 0

Exit ==
    /\ pc = "exit"
    /\ exitCode' = ExitCode(ret)
    /\ pc' = "done"
    /\ UNCHANGED << extVars, ready, ret, failed, panicValue, recovered, appVars, state,
                    stateM, ctxDone, runnerVars, hcVars, hookCalls, log, chk >>

\* ------------------------------------------------------ appChecker.Check
CheckCall(c) ==
    /\ AppCheckName \in readyChecks
    /\ chk[c].pc = "idle"
    /\ chk' = [chk EXCEPT ![c] = [pc |-> "lock", result |-> "none",
                                  atCall |-> state]]
    /\ UNCHANGED << extVars, ready, runVars, appVars, state, stateM, ctxDone, runnerVars,
                    hcVars, hookCalls, log >>

\* a.stateM.Lock()
CheckLock(c) ==
    /\ chk[c].pc = "lock"
    /\ stateM = Unlocked
    /\ stateM' = c
    /\ chk' = [chk EXCEPT ![c].pc = "test"]
    /\ UNCHANGED << extVars, ready, runVars, appVars, state, ctxDone, runnerVars, hcVars,
                    hookCalls, log >>

\* if a.state != stateRunning
CheckValueMutant(st) == "nil"
CheckValue(st) == IF st /= stateRunning THEN ErrAppNotRunningYet ELSE "nil"

\* an evaluation that marks the application as running
CheckTestMutant(c) ==
    /\ chk[c].pc = "test"
    /\ chk' = [chk EXCEPT ![c].pc = "unlock", ![c].result = CheckValue(state)]
    /\ state' = stateRunning
    /\ UNCHANGED << extVars, ready, runVars, appVars, stateM, ctxDone, runnerVars,
                    hcVars, hookCalls, log >>

CheckTest(c) ==
    /\ chk[c].pc = "test"
    /\ chk' = [chk EXCEPT ![c].pc = "unlock", ![c].result = CheckValue(state)]
    /\ UNCHANGED << extVars, ready, runVars, appVars, state, stateM, ctxDone, runnerVars,
                    hcVars, hookCalls, log >>

\* a Check that returns the error without releasing the mutex
CheckUnlockMutant(c) ==
    /\ chk[c].pc = "unlock"
    /\ stateM' = IF chk[c].result = "nil" THEN Unlocked ELSE stateM
    /\ chk' = [chk EXCEPT ![c].pc = "return"]
    /\ UNCHANGED << extVars, ready, runVars, appVars, state, ctxDone, runnerVars, hcVars,
                    hookCalls, log >>

\* a.stateM.Unlock() on either branch
CheckUnlock(c) ==
    /\ chk[c].pc = "unlock"
    /\ stateM' = Unlocked
    /\ chk' = [chk EXCEPT ![c].pc = "return"]
    /\ UNCHANGED << extVars, ready, runVars, appVars, state, ctxDone, runnerVars, hcVars,
                    hookCalls, log >>

CheckReturn(c) ==
    /\ chk[c].pc = "return"
    /\ chk' = [chk EXCEPT ![c] = IdleCheck]
    /\ UNCHANGED << extVars, ready, runVars, appVars, state, stateM, ctxDone, runnerVars,
                    hcVars, hookCalls, log >>

\* ------------------------------------------- the readiness endpoint
\* IsReady of a service: nil once its ready flag is set
IsReady(s) == IF s \in ready THEN "nil" ELSE "not ready"

\* the status server serves /readyz from its start to its stop
Serving == SystemServer \in Range(started)

\* /readyz evaluates every registered ready check; "app" is appChecker.Check
ReadyzChecks ==
    [n \in readyChecks |->
        IF n = AppCheckName THEN CheckValue(state) ELSE IsReady(n)]

\* 200 when every check passes, else 503
ReadyzStatus ==
    IF \A n \in readyChecks : ReadyzChecks[n] = "nil" THEN 200 ELSE 503

Next ==
    \/ \E d \in BOOLEAN : WithDisableSystemServer(d)
    \/ \E h \in Handlers : Shutdown(h)
    \/ RunCall
    \/ BuildLogger
    \/ LogctxInitialize
    \/ NewHealthcheck
    \/ RunSystemServer
    \/ RunnerBeforeStart
    \/ RunnerStart
    \/ PlainLoad
    \/ SecretLoad
    \/ Setup
    \/ StateLock
    \/ SetRunning
    \/ StateUnlock
    \/ Wait
    \/ Cancel
    \/ Recover
    \/ Finish
    \/ Sync
    \/ Exit
    \/ \E c \in Checkers : CheckCall(c)
    \/ \E c \in Checkers : CheckLock(c)
    \/ \E c \in Checkers : CheckTest(c)
    \/ \E c \in Checkers : CheckUnlock(c)
    \/ \E c \in Checkers : CheckReturn(c)

Spec == Init /\ [][Next]_vars

\* the builder methods, before Run is called; Shutdown from several goroutines
BuilderNext ==
    \/ \E c \in Contexts : WithContext(c)
    \/ \E a \in VersionArgs : WithVersion(a[1], a[2], a[3])
    \/ \E o \in ZapOptions : WithLoggerZapOptions(o)
    \/ \E e \in Environments : WithEnvironment(e)
    \/ \E d \in BOOLEAN : WithDisableSystemServer(d)
    \/ \E t \in Threads, h \in Handlers : ShutdownCall(t, h)
    \/ \E t \in Threads : ShutdownLock(t)
    \/ \E t \in Threads : ShutdownRead(t)
    \/ \E t \in Threads : ShutdownWrite(t)
    \/ \E t \in Threads : ShutdownUnlock(t)

SpecBuilder == Init /\ [][BuilderNext]_vars

\* the run with its scheduling: a goroutine that can take a step takes it
\* (the steps inside a critical section never block), and sync.Mutex hands
\* the mutex to a goroutine that has waited for it (starvation mode), so a
\* Lock that is possible again and again is taken
Fairness ==
    /\ SF_vars(StateLock)
    /\ WF_vars(SetRunning)
    /\ WF_vars(StateUnlock)
    /\ \A c \in Checkers :
          /\ SF_vars(CheckLock(c))
          /\ WF_vars(CheckTest(c))
          /\ WF_vars(CheckUnlock(c))
          /\ WF_vars(CheckReturn(c))

\* the run of a program that registers no shutdown handler: no step of Run
\* or of Check reads the handler list
LiveNext ==
    \/ \E d \in BOOLEAN : WithDisableSystemServer(d)
    \/ RunCall
    \/ BuildLogger
    \/ LogctxInitialize
    \/ NewHealthcheck
    \/ RunSystemServer
    \/ RunnerBeforeStart
    \/ RunnerStart
    \/ PlainLoad
    \/ SecretLoad
    \/ Setup
    \/ StateLock
    \/ SetRunning
    \/ StateUnlock
    \/ Wait
    \/ Cancel
    \/ Recover
    \/ Finish
    \/ Sync
    \/ Exit
    \/ \E c \in Checkers : CheckCall(c)
    \/ \E c \in Checkers : CheckLock(c)
    \/ \E c \in Checkers : CheckTest(c)
    \/ \E c \in Checkers : CheckUnlock(c)
    \/ \E c \in Checkers : CheckReturn(c)

SpecLive == Init /\ [][LiveNext]_vars /\ Fairness

TypeOK ==
    /\ exitCode \in {-1, 0, 1}
    /\ state \in {stateZero, stateRunning}
    /\ stateM \in {Unlocked, RunGoroutine} \cup Checkers
    /\ Len(shutdownHandler) <= MaxHooks

\* ----------------------------------------------------- facts about a run
LogIndex(e) == { i \in DOMAIN log : log[i] = e }
Logged(e) == LogIndex(e) /= {}
Before(e1, e2) == \A j \in LogIndex(e2) : \E i \in LogIndex(e1) : i < j
StartedOk(s) == Logged(<<"start_nil", s>>)
StartFailed(s) == Logged(<<"start_error", s>>) \/ Logged(<<"start_panic", s>>)
Panics == { i \in DOMAIN log :
              log[i][1] \in {"start_panic", "load_panic", "setup_panic",
                             "wait_panic"} }
Teardown == {"deferred", "finish", "sync", "exit", "done"}

\* C1: the state is running only when Runner.Run has returned nil for the
\* whole user service set, so every user service has been started without
\* error; the transition is logged after every start and before the wait,
\* and the wait is entered only with the state running.
C1_RunningAfterAllStarted ==
    /\ state = stateRunning =>
          /\ Len(svcs) > 0
          /\ \A i \in DOMAIN svcs : StartedOk(svcs[i]) /\ ~StartFailed(svcs[i])
          /\ \A i \in DOMAIN svcs : startCalls[svcs[i]] = 1
          /\ failed = "none"
          /\ \A i \in DOMAIN svcs :
                Before(<<"start_nil", svcs[i]>>, <<"step", "running">>)
    /\ Before(<<"step", "running">>, <<"step", "wait">>)
    /\ pc = "wait" => state = stateRunning
    /\ pc \in {"lock", "setState"} => state /= stateRunning

C1_Witness ==
    /\ pc = "wait"
    /\ state = stateRunning
    /\ Len(svcs) = 2
    /\ \A i \in DOMAIN svcs : StartedOk(svcs[i])

\* C2: an evaluation of appChecker.Check that holds the mutex has a result
\* that agrees with the state; an evaluation that has returned while the
\* state is not yet running returned "app is not running yet"; an evaluation
\* called when the state was already running returns nil.
C2_CheckFollowsTransition ==
    \A c \in Checkers :
       /\ chk[c].pc = "unlock" =>
             (chk[c].result = "nil" <=> state = stateRunning)
       /\ chk[c].pc = "unlock" =>
             chk[c].result \in {"nil", ErrAppNotRunningYet}
       /\ (chk[c].pc = "return" /\ state /= stateRunning) =>
             chk[c].result = ErrAppNotRunningYet
       /\ (chk[c].pc \in {"unlock", "return"} /\ chk[c].atCall = stateRunning)
             => chk[c].result = "nil"

\* one evaluation returned the error, a later one, called before the
\* transition as well, returned nil
C2_Witness ==
    \E c1, c2 \in Checkers :
       /\ chk[c1].pc = "return" /\ chk[c1].result = ErrAppNotRunningYet
       /\ chk[c2].pc = "return" /\ chk[c2].result = "nil"
       /\ chk[c2].atCall = stateZero

\* C3 (as stated): with the status server enabled and an empty service set,
\* once the setup callback has completed the ready checks are exactly
\* {"app"} and "app" is ready.
EmptyRun == ~disableSystemServer /\ Logged(<<"setup_nil", "empty">>)

C3_EmptySetReadyAfterSetup ==
    /\ (~disableSystemServer /\ pc \in {"plainLoad", "secretLoad", "setup"})
          => state /= stateRunning
    /\ EmptyRun => (readyChecks = {AppCheckName} /\ state = stateRunning)

\* C3 (amended): with the status server enabled and an empty service set,
\* "app" is registered, no user service has a ready check, and "app" is
\* not ready before the setup callback completes and stays not ready after
\* it: Run returns without the running transition and tears down.
C3_EmptySetNeverReady ==
    /\ (~disableSystemServer /\ pc \in {"plainLoad", "secretLoad", "setup"})
          => /\ AppCheckName \in readyChecks
             /\ readyChecks \cap UserServices = {}
             /\ state /= stateRunning
    /\ EmptyRun =>
          /\ AppCheckName \in readyChecks
          /\ readyChecks \cap UserServices = {}
          /\ state /= stateRunning
          /\ pc \in Teardown
          /\ \A c \in Checkers :
                chk[c].pc = "return" => chk[c].result = ErrAppNotRunningYet

\* the readiness of "app" is evaluated after the setup callback returned
\* the empty set, and the evaluation returns the error
C3_Witness ==
    /\ EmptyRun
    /\ pc = "finish"
    /\ \E c \in Checkers :
          /\ chk[c].pc = "return"
          /\ chk[c].result = ErrAppNotRunningYet

\* C4: when the run is over and the teardown has called Runner.Finish, every
\* registered shutdown handler has been invoked, once, in registration order.
C4_HooksInvokedInOrder ==
    (pc = "done" /\ finishCalls > 0) => hookCalls = shutdownHandler

\* C5: a run in which a step panicked ends with exit code 1.
C5_PanicExitsWithOne ==
    (pc = "done" /\ Panics /= {}) => exitCode = 1

FatalSteps == {"logger", "sysServer", "plain", "secret", "setup", "services"}

C7_ExitCode ==
    /\ pc /= "done" => exitCode = 0 - 1
    /\ pc = "done" =>
          /\ exitCode \in {0, 1}
          /\ exitCode = 1 <=> failed \in FatalSteps
          /\ Logged(<<"wait_nil", "wait">>) => exitCode = 0
          /\ (failed = "none" /\ finishErr) => exitCode = 0

C7_Witness ==
    /\ pc = "done"
    /\ exitCode = 0
    /\ finishErr
    /\ state = stateRunning
    /\ Logged(<<"wait_nil", "wait">>)

\* a run ends with exit code 1 after the secret load failed
C7_WitnessFatal ==
    /\ pc = "done"
    /\ exitCode = 1
    /\ failed = "secret"

\* C8: when the plain or the secret load fails no user service's start is
\* invoked in the run (the status server, when enabled, was started through
\* the Runner before the loads), Runner.Finish is called and the run ends
\* with exit code 1.
ConfigFailed ==
    Logged(<<"load_error", "plain">>) \/ Logged(<<"load_error", "secret">>)

LoadOrLater ==
    { i \in DOMAIN log :
        \/ log[i][1] \in {"load_nil", "load_error", "load_panic",
                          "setup_nil", "setup_error", "setup_panic"}
        \/ log[i][2] \in UserServices }

C9_StatusServerFirst ==
    ~disableSystemServer =>
       /\ \A j \in LoadOrLater :
             \E i \in LogIndex(<<"start_nil", SystemServer>>) : i < j
       /\ pc \in {"plainLoad", "secretLoad", "setup"} =>
             SystemServer \in Range(started)
       /\ Logged(<<"start_error", SystemServer>>) =>
             /\ failed = "sysServer"
             /\ LoadOrLater = {}
             /\ ConfigManager = "nil"
             /\ pc \in Teardown
             /\ pc = "done" => exitCode = 1

C9_Witness ==
    /\ ~disableSystemServer
    /\ Logged(<<"start_error", SystemServer>>)
    /\ pc = "done"

\* the status server is up while the secret configuration is loaded
C9_WitnessStarted ==
    /\ ~disableSystemServer
    /\ pc = "secretLoad"
    /\ started = << SystemServer >>

\* C10: when the setup callback returns an error Runner.Run is not called
\* for user services, the state never becomes running and the wait is never
\* entered; when Runner.Run returns an error for the user services the state
\* never becomes running and the wait is never entered.
C10_ShortCircuit ==
    /\ Logged(<<"setup_error", "setup">>) =>
          /\ failed = "setup"
          /\ \A s \in UserServices :
                startCalls[s] = 0 /\ ~Logged(<<"before_start", s>>)
          /\ runnerCaller /= "services"
          /\ state /= stateRunning
          /\ ~Logged(<<"step", "wait">>)
          /\ pc \in Teardown
    /\ (\E s \in UserServices : Logged(<<"start_error", s>>)) =>
          /\ failed = "services"
          /\ state /= stateRunning
          /\ ~Logged(<<"step", "wait">>)
          /\ pc \in Teardown

\* the second of two user services failed to start and the run is over
C10_Witness ==
    /\ Logged(<<"start_error", "resource">>)
    /\ StartedOk("http")
    /\ pc = "done"
    /\ state /= stateRunning

\* the setup callback failed and the run is over
C10_WitnessSetup ==
    /\ Logged(<<"setup_error", "setup">>)
    /\ pc = "done"

\* C11: on every way out of Run that is not a panic, once the Runner has
\* been constructed, Runner.Finish is called exactly once, after every step
\* of the run that executed, and the logger is flushed after it also when
\* Finish returned an error; before the Runner exists Finish is not called.
StepsBeforeTeardown ==
    { i \in DOMAIN log : log[i] \notin {<<"step", "finish">>,
                                         <<"step", "sync">>} }

C11_FinishOnce ==
    /\ finishCalls <= 1
    /\ finishCalls = Cardinality(LogIndex(<<"step", "finish">>))
    /\ ~Logged(<<"step", "runner">>) => finishCalls = 0
    /\ (Panics = {} /\ Logged(<<"step", "runner">>) /\ pc \in {"exit", "done"})
          => /\ finishCalls = 1
             /\ \A j \in LogIndex(<<"step", "finish">>) :
                   /\ \A i \in StepsBeforeTeardown : i < j
                   /\ \E k \in LogIndex(<<"step", "sync">>) : j < k
             /\ log[Len(log)] = <<"step", "sync">>

\* a service failed to start, Finish returned an error and the logger was
\* flushed all the same
C11_Witness ==
    /\ pc = "done"
    /\ Panics = {}
    /\ failed = "services"
    /\ finishErr
    /\ finishCalls = 1
    /\ Logged(<<"step", "sync">>)

C12_WitnessPartial ==
    /\ pc = "done"
    /\ Logged(<<"start_error", "resource">>)
    /\ stopCalls["http"] = 1
    /\ stopCalls["resource"] = 0

\* the number M of ReadyCheckers among the user services of the run
ReadyCheckers ==
    { i \in DOMAIN svcs : IsReadyChecker(svcs[i], sysReady) }
AllReady == \A i \in ReadyCheckers : IsReady(svcs[i]) = "nil"
AllBeforeStart == \A i \in DOMAIN svcs : Logged(<<"before_start", svcs[i]>>)

\* C13 (as stated): once the N user services have been handed to the Runner
\* and the M ReadyCheckers among them are ready, the readiness endpoint
\* reports exactly M + 1 checks.
C13_CheckCountMPlusOne ==
    (Serving /\ Len(svcs) > 0 /\ AllBeforeStart /\ AllReady) =>
       Cardinality(DOMAIN ReadyzChecks) = Cardinality(ReadyCheckers) + 1

\* C13 (amended): the registry then holds "app", the ready checks of the M
\* ReadyCheckers and, when the status server was run and its own type is a
\* ReadyChecker, the status server's check: M + 1 or M + 2 checks.
StatusServerChecks ==
    IF Logged(<<"before_start", SystemServer>>)
          /\ IsReadyChecker(SystemServer, sysReady)
       THEN {SystemServer} ELSE {}

C13_CheckCount ==
    /\ (Len(svcs) > 0 /\ AllBeforeStart) =>
          /\ DOMAIN ReadyzChecks =
                {AppCheckName} \cup { svcs[i] : i \in ReadyCheckers }
                   \cup StatusServerChecks
          /\ Cardinality(DOMAIN ReadyzChecks) =
                Cardinality(ReadyCheckers) + 1
                   + Cardinality(StatusServerChecks)
    /\ Cardinality(readyChecks) <=
          Cardinality(ReadyCheckers) + 1 + Cardinality(StatusServerChecks)

\* two ReadyCheckers are ready, the status server has a check of its own
C13_Witness ==
    /\ Serving
    /\ state = stateRunning
    /\ Cardinality(ReadyCheckers) = 2
    /\ AllReady
    /\ Cardinality(DOMAIN ReadyzChecks) = 4

\* a ReadyChecker next to a service that is none, status server disabled
C13_WitnessDisabled ==
    /\ disableSystemServer
    /\ state = stateRunning
    /\ Len(svcs) = 2
    /\ Cardinality(ReadyCheckers) = 1
    /\ Cardinality(DOMAIN ReadyzChecks) = 2

\* C14: while Runner.Run for the user services is in progress /readyz
\* answers 503 with "app" carrying "app is not running yet"; it answers 200
\* only when the state is running and every registered check passes, and it
\* does so once the services have started; the check of a service passes
\* only after that service's start set its ready flag.
StartInProgress ==
    pc \in {"runnerBeforeStart", "runnerStart"} /\ runnerCaller = "services"

C14_ReadyzFollowsStart ==
    /\ (Serving /\ StartInProgress) =>
          /\ ReadyzStatus = 503
          /\ ReadyzChecks[AppCheckName] = ErrAppNotRunningYet
    /\ (Serving /\ ReadyzStatus = 200) =>
          /\ state = stateRunning
          /\ \A i \in DOMAIN svcs : StartedOk(svcs[i])
    /\ (Serving /\ state = stateRunning) => ReadyzStatus = 200
    /\ \A n \in readyChecks \ {AppCheckName} :
          ReadyzChecks[n] = "nil" => (StartedOk(n) /\ startCalls[n] = 1)
    /\ \A n \in readyChecks \ {AppCheckName} :
          (Logged(<<"before_start", n>>) /\ ~StartedOk(n))
             => ReadyzChecks[n] = "not ready"

\* the start of the ReadyChecker is in progress: its check is registered
\* and fails, /readyz answers 503
C14_Witness ==
    /\ Serving
    /\ pc = "runnerStart"
    /\ runnerArgs[runnerIdx] = "Long to get Ready"
    /\ ReadyzChecks["Long to get Ready"] = "not ready"
    /\ ReadyzStatus = 503

\* the services have started and /readyz answers 200
C14_WitnessReady ==
    /\ Serving
    /\ pc = "wait"
    /\ "Long to get Ready" \in readyChecks
    /\ ReadyzStatus = 200

\* C15: a step that changes the registry is the construction of the
\* registry or a before_start event; on before_start of a service a health
\* check is registered under its name exactly when it is a HealthChecker and
\* a ready check exactly when it is a ReadyChecker; after_start, the stops
\* of Finish and every other step leave the registry unchanged.
C15_Registry ==
    /\ healthChecks = { s \in AllServices :
                          Logged(<<"before_start", s>>) /\ IsHealthChecker(s) }
    /\ readyChecks \ {AppCheckName} =
          { s \in AllServices :
              Logged(<<"before_start", s>>) /\ IsReadyChecker(s, sysReady) }

C15_RegistryFrame ==
    [][ (readyChecks' /= readyChecks \/ healthChecks' /= healthChecks)
           => (pc \in {"newHealthcheck", "runnerBeforeStart"}) ]_vars

C15_ObserverRegisters == []C15_Registry /\ C15_RegistryFrame

\* a HealthChecker and ReadyChecker was started next to a ReadyChecker: one
\* health check, and the run has gone through after_start and the stops
C15_Witness ==
    /\ pc = "done"
    /\ svcs = <<"Long to get Ready", "checked">>
    /\ healthChecks = {"checked"}
    /\ {"Long to get Ready", "checked"} \subseteq readyChecks
    /\ stopCalls["checked"] = 1

\* C17 (as stated, C17_TransitionOnce): in a run in which the setup callback
\* returned and every service of its set started, the state went from not
\* running to running exactly once; and the state never goes back.
Transitions == Cardinality(LogIndex(<<"step", "running">>))
AllStarted ==
    /\ Logged(<<"setup_nil", "run">>) \/ Logged(<<"setup_nil", "empty">>)
    /\ \A i \in DOMAIN svcs : StartedOk(svcs[i])


\* C17 (amended): in a run in which the service set is not empty and every
\* service of it started, the state goes from not running to running exactly
\* once, as soon as Runner.Run has returned; in no run does it change in any
\* other way, and it never goes back.
C17_Once ==
    /\ Transitions <= 1
    /\ Transitions = 1 <=> state = stateRunning
    /\ (AllStarted /\ Len(svcs) > 0
          /\ pc \notin {"runnerBeforeStart", "runnerStart", "lock",
                        "setState"})
          => (Transitions = 1 /\ state = stateRunning)

C17_NeverBack ==
    [][ /\ state = stateRunning => state' = stateRunning
        /\ state' /= state => (pc = "setState" /\ state' = stateRunning)
      ]_vars

C17_TransitionOnceNonEmpty == []C17_Once /\ C17_NeverBack

C17_OnceAlsoEmpty ==
    (pc = "done" /\ AllStarted) => (Transitions = 1 /\ state = stateRunning)

C17_TransitionOnce == []C17_OnceAlsoEmpty /\ C17_NeverBack

\* the run of two services is over, after one transition
C17_Witness ==
    /\ pc = "done"
    /\ Len(svcs) = 2
    /\ AllStarted
    /\ Transitions = 1
    /\ state = stateRunning

\* C18: a step of an evaluation of appChecker.Check leaves the state, the
\* registered checks and the ready flags as they are, so what /readyz
\* reports is the same before and after it; two evaluations between whose
\* calls and now the state has not changed have the same result.
C18_SameResult ==
    \A c1, c2 \in Checkers :
       ( /\ chk[c1].pc \in {"unlock", "return"}
         /\ chk[c2].pc \in {"unlock", "return"}
         /\ chk[c1].atCall = state
         /\ chk[c2].atCall = state )
       => chk[c1].result = chk[c2].result

C18_NoEffect ==
    [][ chk' /= chk =>
          /\ UNCHANGED << state, readyChecks, healthChecks, ready, pc, log >>
          /\ ReadyzChecks' = ReadyzChecks
          /\ ReadyzStatus' = ReadyzStatus ]_vars

C18_Idempotent == []C18_SameResult /\ C18_NoEffect

\* two evaluations made during the configuration load both returned the
\* error
C18_Witness ==
    /\ pc = "secretLoad"
    /\ \A c \in Checkers :
          chk[c].pc = "return" /\ chk[c].result = ErrAppNotRunningYet

\* two evaluations called after the transition both returned nil
C18_WitnessRunning ==
    /\ pc = "wait"
    /\ \A c \in Checkers :
          /\ chk[c].pc = "return"
          /\ chk[c].atCall = stateRunning
          /\ chk[c].result = "nil"

\* what no builder method touches: the coordinator state, the position of
\* the run, the Runner, the configuration and the registry
notFieldVars == << state, stateM, pc, ret, failed, panicValue, recovered,
                   exitCode, ConfigManager, ctxDone, runnerVars, hcVars,
                   ready, hookCalls, log, chk >>

BuilderFrame ==
    /\ call'[1] = "WithContext" =>
          /\ context' = call'[2]
          /\ UNCHANGED << version, build, buildDate, environment,
                          loggerZapOptions, disableSystemServer >>
    /\ call'[1] = "WithVersion" =>
          /\ << version', build', buildDate' >> = SubSeq(call', 2, 4)
          /\ UNCHANGED << context, environment, loggerZapOptions,
                          disableSystemServer >>
    /\ call'[1] = "WithLoggerZapOptions" =>
          /\ loggerZapOptions' = Tail(call')
          /\ UNCHANGED << context, version, build, buildDate, environment,
                          disableSystemServer >>
    /\ call'[1] = "WithEnvironment" =>
          /\ environment' = call'[2]
          /\ UNCHANGED << context, version, build, buildDate,
                          loggerZapOptions, disableSystemServer >>
    /\ call'[1] = "WithDisableSystemServer" =>
          /\ BoolArg(disableSystemServer') = call'[2]
          /\ UNCHANGED << context, version, build, buildDate, environment,
                          loggerZapOptions >>

\* C19: a call of WithContext, WithVersion, WithEnvironment,
\* WithLoggerZapOptions or WithDisableSystemServer sets the fields it names
\* to its arguments and changes no other field; a step of Shutdown changes
\* no field but shutdownHandler, to which it appends its handler; no builder
\* method changes the coordinator state, starts a service or loads the
\* configuration.
C19_BuildersSetTheirFields ==
    [][ /\ call' /= call =>
              /\ BuilderFrame
              /\ UNCHANGED << shutdownHandler, shutdownVars, notFieldVars >>
        /\ thr' /= thr =>
              /\ UNCHANGED << fieldVars, disableSystemServer, call,
                              notFieldVars >>
              /\ \/ UNCHANGED shutdownHandler
                 \/ \E t \in Threads :
                       /\ thr[t].pc = "write"
                       /\ shutdownHandler' =
                             Append(shutdownHandler, thr[t].handler)
      ]_vars

\* a chain of builder calls: every field holds the argument it was given
C19_Witness ==
    /\ call = <<"WithVersion", "version", "build", "build_date">>
    /\ << version, build, buildDate >> = <<"version", "build", "build_date">>
    /\ environment = "environment"
    /\ context = "ctx"
    /\ loggerZapOptions = <<"AddCaller">>
    /\ disableSystemServer
    /\ Len(shutdownHandler) = 1
    /\ state = stateZero
    /\ pc = "new"

Quiescent == \A t \in Threads : thr[t].pc = "idle"
NotWritten == { t \in Threads : thr[t].pc \in {"lock", "read", "write"} }

C20_NoneLost ==
    /\ Len(shutdownHandler) = Len(calls) - Cardinality(NotWritten)
    /\ Cardinality(Range(shutdownHandler)) = Len(shutdownHandler)
    /\ Range(shutdownHandler) =
          Range(calls) \ { thr[t].handler : t \in NotWritten }
    /\ (Quiescent /\ ~overlapped) => shutdownHandler = calls

C20_AppendsAtEnd ==
    [][ shutdownHandler' /= shutdownHandler =>
          \E h \in Handlers : shutdownHandler' = Append(shutdownHandler, h)
      ]_vars

\* C20: every call of Shutdown appends exactly one handler, its own, to the
\* end of the list: after k calls have written the list holds the k
\* handlers, in call order when the calls did not overlap, and with none
\* lost when they were made concurrently by several goroutines.
C20_ShutdownAppends == []C20_NoneLost /\ C20_AppendsAtEnd

\* two overlapping calls: the later caller got the mutex first, both
\* handlers are in the list
C20_Witness ==
    /\ Quiescent
    /\ overlapped
    /\ Len(calls) = 2
    /\ Len(shutdownHandler) = 2
    /\ shutdownHandler /= calls

\* two calls one after the other: the list is in call order
C20_WitnessSequential ==
    /\ Quiescent
    /\ ~overlapped
    /\ Len(shutdownHandler) = 2
    /\ shutdownHandler = calls

\* ------------------------------------------------ the configuration phases
LoadAttempts(step) ==
    { i \in DOMAIN log :
        log[i] \in { <<"load_nil", step>>, <<"load_error", step>>,
                     <<"load_panic", step>> } }
SetupCalls ==
    { i \in DOMAIN log :
        log[i][1] \in {"setup_nil", "setup_error", "setup_panic"} }
SetupEntered == pc = "setup" \/ SetupCalls /= {}

\* C21: the plain load comes first and the secret load second, each at most
\* once; a load that returns an error is fatal (the closure returns the
\* error of that step and the run ends with exit code 1); when the plain
\* load fails the secret load is never attempted; the setup callback is
\* invoked only after both loads returned nil, and whenever it is invoked
\* the merged ConfigManager is published (non-nil) on the Application.
C21_TwoPhaseLoad ==
    /\ Cardinality(LoadAttempts("plain")) <= 1
    /\ Cardinality(LoadAttempts("secret")) <= 1
    /\ \A j \in LoadAttempts("secret") :
          \E i \in LogIndex(<<"load_nil", "plain">>) : i < j
    /\ ~Logged(<<"load_nil", "plain">>) =>
          LoadAttempts("secret") = {} /\ pc /= "secretLoad"
    /\ \A step \in {"plain", "secret"} :
          Logged(<<"load_error", step>>) =>
             /\ ret = "error"
             /\ failed = step
             /\ pc \in Teardown
             /\ ~SetupEntered
             /\ pc = "done" => exitCode = 1
    /\ SetupEntered =>
          /\ Logged(<<"load_nil", "plain">>)
          /\ Logged(<<"load_nil", "secret">>)
          /\ \A k \in SetupCalls :
                \E j \in LogIndex(<<"load_nil", "secret">>) : j < k
          /\ ConfigManager /= "nil"
    /\ ConfigManager /= "nil" <=> Logged(<<"load_nil", "secret">>)

\* the setup callback is about to run: both loads are done, in order, and
\* the manager is published
C21_Witness ==
    /\ pc = "setup"
    /\ ConfigManager = "manager"
    /\ Before(<<"load_nil", "plain">>, <<"load_nil", "secret">>)
    /\ Logged(<<"load_nil", "secret">>)

\* the plain load failed: the run is over, the secret load was not attempted
C21_WitnessPlainFailed ==
    /\ Logged(<<"load_error", "plain">>)
    /\ LoadAttempts("secret") = {}
    /\ pc = "done"
    /\ exitCode = 1

\* ------------------------------------------------- the mutex of the state
\* the goroutines inside the critical section of stateM
InCritical ==
    { c \in Checkers : chk[c].pc \in {"test", "unlock"} }
       \cup (IF pc \in {"setState", "unlock"} THEN {RunGoroutine} ELSE {})
Waiting ==
    { c \in Checkers : chk[c].pc = "lock" }
       \cup (IF pc = "lock" THEN {RunGoroutine} ELSE {})

\* the mutex is held exactly by the goroutine inside the critical section,
\* one at most; a goroutine that has returned from Check or has passed the
\* transition does not hold it
C22_Held ==
    /\ InCritical = IF stateM = Unlocked THEN {} ELSE {stateM}
    /\ \A c \in Checkers :
          chk[c].pc \in {"return", "idle"} => stateM /= c
    /\ pc \notin {"setState", "unlock"} => stateM /= RunGoroutine

\* the state is written and read only by the holder of the mutex
C22_Guarded ==
    [][ /\ state' /= state => stateM = RunGoroutine /\ stateM' = RunGoroutine
        /\ \A c \in Checkers :
              chk'[c].result /= chk[c].result /\ chk'[c].result /= "none" =>
                 /\ stateM = c
                 /\ chk'[c].result = CheckValue(state)
      ]_vars

\* no deadlock: when a goroutine waits for the mutex, the mutex is free or
\* its holder has a step to take
C22_NoDeadlock ==
    Waiting /= {} =>
       \/ stateM = Unlocked
       \/ stateM = RunGoroutine /\ (ENABLED SetRunning \/ ENABLED StateUnlock)
       \/ \E c \in Checkers :
             /\ stateM = c
             /\ ENABLED CheckTest(c) \/ ENABLED CheckUnlock(c)

\* the transition gets the mutex, and so does every evaluation
C22_TransitionNotBlocked == (pc = "lock") ~> (pc = "setState")
C22_EvaluationReturns ==
    \A c \in Checkers : (chk[c].pc = "lock") ~> (chk[c].pc = "return")

\* C22: the coordinator state is read and written only by the holder of
\* stateM, Check has released the mutex when it returns on either path, the
\* evaluations and the running transition never deadlock, and the
\* transition, once it waits for the mutex, gets it whatever the
\* evaluations do.
C22_MutexDiscipline ==
    /\ []C22_Held
    /\ C22_Guarded
    /\ []C22_NoDeadlock
    /\ C22_TransitionNotBlocked
    /\ C22_EvaluationReturns

\* the transition waits for the mutex while one evaluation holds it and
\* another waits for it too
C22_Witness ==
    /\ pc = "lock"
    /\ \E c1, c2 \in Checkers :
          /\ stateM = c1
          /\ chk[c1].pc = "unlock"
          /\ chk[c1].result = ErrAppNotRunningYet
          /\ chk[c2].pc = "lock"

\* an evaluation waits for the mutex while the transition holds it
C22_WitnessTransition ==
    /\ pc = "unlock"
    /\ stateM = RunGoroutine
    /\ state = stateRunning
    /\ \A c \in Checkers : chk[c].pc = "lock"

\* --------------------------------------------- the disabled status server
\* every trace the status server leaves in a run
SystemServerTraces ==
    { i \in DOMAIN log : log[i][2] \in {SystemServer, "sysServer"} }

C23_NothingStarted ==
    (disableSystemServer /\ pc /= "new") =>
       /\ SystemServerTraces = {}
       /\ startCalls[SystemServer] = 0
       /\ stopCalls[SystemServer] = 0
       /\ SystemServer \notin Range(started)
       /\ SystemServer \notin Range(runnerArgs)
       /\ SystemServer \notin readyChecks \cup healthChecks
       /\ runnerCaller /= "sysServer"
       /\ failed /= "sysServer"
       /\ panicValue /= "sysServer"

C23_ProceedsToLoad ==
    [][ (pc = "sysServer" /\ disableSystemServer /\ pc' /= pc) =>
           /\ pc' = "plainLoad"
           /\ UNCHANGED << ret, failed, panicValue, runnerVars, hcVars,
                           ready, log, state, ConfigManager >>
      ]_vars

\* C23: with disableSystemServer set, runSystemServer returns nil and
\* changes nothing: the status server is never passed to Runner.Run, no
\* before_start is fired for it, it is neither started nor stopped nor
\* registered as a check, the step never fails, and the run goes on to the
\* plain configuration load.
C23_DisabledStartsNothing == []C23_NothingStarted /\ C23_ProceedsToLoad

\* runSystemServer has just returned with the flag set
C23_Witness ==
    /\ disableSystemServer
    /\ pc = "plainLoad"
    /\ log[Len(log)] = <<"step", "runner">>
    /\ started = <<>>
    /\ readyChecks = {AppCheckName}

\* a whole run without the status server
C23_WitnessRunning ==
    /\ disableSystemServer
    /\ state = stateRunning
    /\ pc = "done"
    /\ Range(started) = {}
    /\ \A i \in DOMAIN svcs : stopCalls[svcs[i]] = 1

\* ------------------------------------- the registry the endpoint serves
\* the status server has been handed to the Runner
StatusServerRun == Logged(<<"run", "sysServer">>)

\* C24: the registry is constructed with the check "app" before the status
\* server is handed to the Runner: whenever the status server is being
\* started or is serving, "app" is among the ready checks, so the check set
\* of /readyz is never empty and, until the running transition, its status
\* is 503 because "app" fails.
C24_AppCheckBeforeServing ==
    /\ (StatusServerRun \/ Serving \/ pc = "sysServer") =>
          /\ AppCheckName \in readyChecks
          /\ DOMAIN ReadyzChecks /= {}
          /\ Before(<<"step", "runner">>, <<"run", "sysServer">>)
    /\ (Serving /\ state /= stateRunning) =>
          /\ ReadyzChecks[AppCheckName] = ErrAppNotRunningYet
          /\ ReadyzStatus = 503

\* the status server serves during startup, with "app" as the only check
C24_Witness ==
    /\ Serving
    /\ pc = "secretLoad"
    /\ state = stateZero
    /\ readyChecks = {AppCheckName}
    /\ ReadyzStatus = 503

\* ------------------------------------------------ the state in the teardown
\* the deferred function and what follows it, once the state is running
TeardownRunning == pc \in Teardown /\ Logged(<<"step", "running">>)

C25_StateKept ==
    /\ TeardownRunning =>
          /\ state = stateRunning
          /\ CheckValue(state) = "nil"
    /\ \A c \in Checkers :
          (chk[c].atCall = stateRunning /\ chk[c].result /= "none") =>
             chk[c].result = "nil"

C25_TeardownWritesNothing ==
    [][ /\ pc \in Teardown => (state' = state /\ pc' \in Teardown)
        /\ \A c \in Checkers :
              (TeardownRunning /\ chk[c].pc = "test" /\ chk'[c].pc = "unlock")
                 => chk'[c].result = "nil"
      ]_vars

\* C25: no step of the teardown (recover, Runner.Finish, logger.Sync, the
\* return of Run) writes the coordinator state: once the state is running
\* it is running in every later state, and an evaluation of the check that
\* reads the state during or after Runner.Finish returns no error.
C25_RunningThroughTeardown == []C25_StateKept /\ C25_TeardownWritesNothing

\* Runner.Finish has stopped the services; an evaluation called with the
\* state running has returned no error and another is about to read
C25_Witness ==
    /\ pc = "sync"
    /\ finishCalls = 1
    /\ state = stateRunning
    /\ \A i \in DOMAIN svcs : stopCalls[svcs[i]] = 1
    /\ \E c1, c2 \in Checkers :
          /\ chk[c1].pc = "return"
          /\ chk[c1].atCall = stateRunning
          /\ chk[c1].result = "nil"
          /\ chk[c2].pc = "test"

====
